---- MODULE Spec2Model ----
(***************************************************************************)
(* Model of the flow backend (src/backend/app.py): the in-memory stores    *)
(* agents_db and connections_db, the request handlers that change them,    *)
(* and run_flow, the strict Input -> PromptTemplate -> GeminiLLM run.      *)
(*                                                                         *)
(* A Python dict keeps insertion order; agents_db and connections_db are   *)
(* sequences of records in insertion order.  A JSON object (a request      *)
(* body, a config) is a function from the keys it holds to their values.   *)
(* An agent's name and position are carried by no decision of any handler  *)
(* and are left out of the agent record.                                   *)
(*                                                                         *)
(* The CRUD handlers are one step each.  run_flow is three steps (scan and *)
(* validate, read the configuration and build the chain, the model call's  *)
(* outcome), and requests of other callers may be served between them: the *)
(* server is started threaded (app.run, line 253).                         *)
(*                                                                         *)
(* The second part models the Telegram bot (src/dice_bot.py): the process  *)
(* lock, a socket bound to a fixed port, and the shutdown of the bot       *)
(* processes that compete for it.  It has its own specification, BotSpec.  *)
(***************************************************************************)
EXTENDS Integers, Sequences, FiniteSets, TLC

VARIABLES
    agents_db,        \* line 15: the agents, in insertion order
    connections_db,   \* line 16: the connections, in insertion order
    next_agent,       \* how many agent ids generate_unique_id has handed out
    next_conn,        \* how many connection ids it has handed out
    api_key,          \* whether GOOGLE_API_KEY is set in the environment
    last,             \* the last CRUD response: handler and HTTP status
    pc,               \* where the run in flight is: idle, scanned, invoking, done
    run,              \* the locals of the run in flight
    snap,             \* the store as it was when the run in flight started
    report,           \* the JSON body and status run_flow returned
    bots              \* src/dice_bot.py: the bot processes

vars == <<agents_db, connections_db, next_agent, next_conn, api_key, last,
          pc, run, snap, report, bots>>

-----------------------------------------------------------------------------
(* Bounds *)

\* generate_unique_id returns a fresh id each time; at most MaxIds agents and
\* MaxConns connections are ever created.
MaxIds == 3
MaxConns == 1

\* how many bot processes are started
MaxBots == 2

-----------------------------------------------------------------------------
(* JSON values *)

\* A config value: a dictionary {"text": t} (kind "dict"), or a string t
\* (kind "str"), which is not a dictionary.
Val(kind, t) == [kind |-> kind, text |-> t]

EmptyDict == [kind |-> "emptydict", text |-> ""]

\* {} : the object with no key
EmptyCfg == [k \in {} |-> ""]

\* d.get(k, default)
Get(d, k, default) == IF k \in DOMAIN d THEN d[k] ELSE default

\* {**d, **u} : u's keys take precedence
Merge(d, u) ==
    [k \in DOMAIN d \cup DOMAIN u |-> IF k \in DOMAIN u THEN u[k] ELSE d[k]]

\* isinstance(v, dict)
IsDict(v) == v.kind \in {"dict", "emptydict"}

DEFAULT_CONFIGS ==
    [InputNode          |-> [value |-> Val("dict", "Default input text")],
     OutputNode         |-> EmptyCfg,
     ProcessingNode     |-> [prepend |-> "Processed: ", append |-> ""],
     PromptTemplateNode |-> [template_string |->
                               "Translate the following text to French: {text}"],
     GeminiLLMNode      |-> [model_name |-> "gemini-pro", temperature |-> "0.7"]]

\* DEFAULT_CONFIGS.get(agent_type, {})
DefaultConfig(agent_type) == Get(DEFAULT_CONFIGS, agent_type, EmptyCfg)

-----------------------------------------------------------------------------
(* The stores *)

Range(s) == {s[i] : i \in DOMAIN s}

\* the keys of agents_db
AgentIds(agents) == {agents[i].id : i \in DOMAIN agents}

ConnIds(conns) == {conns[i].id : i \in DOMAIN conns}

\* agents_db[agent_id]
AgentOf(agents, agent_id) ==
    agents[CHOOSE i \in DOMAIN agents : agents[i].id = agent_id]

\* del d[key] on an insertion-ordered dict
DictDel(d, key) == SelectSeq(d, LAMBDA e : e.id # key)

\* d[key] = value where key is already present: the entry keeps its place
DictSet(d, value) ==
    [i \in DOMAIN d |-> IF d[i].id = value.id THEN value ELSE d[i]]

-----------------------------------------------------------------------------
(* Requests the model draws from *)

\* POST /api/agents bodies: each type with no config, an InputNode whose value
\* is a string, a PromptTemplateNode with an empty template, and a body
\* without "type".
CreateAgentBodies ==
    {[name |-> "n", type |-> t] :
        t \in {"InputNode", "PromptTemplateNode", "GeminiLLMNode", "OutputNode"}}
    \cup {[name |-> "n", type |-> "InputNode",
           config |-> [value |-> Val("str", "hi")]],
          [name |-> "n", type |-> "PromptTemplateNode",
           config |-> [template_string |-> ""]],
          [name |-> "n"]}

\* PUT /api/agents/<id> bodies: an empty body, a body without "config", and a
\* body whose config is {"value": "hi"}.
UpdateAgentBodies ==
    {EmptyCfg, [name |-> "m"], [config |-> [value |-> Val("str", "hi")]]}

\* ids a request may name: every id handed out so far and one never handed out
AgentIdArgs == 1..(MaxIds + 1)
ConnIdArgs == 1..(MaxConns + 1)

ConnectionFields ==
    {"source_agent_id", "target_agent_id", "source_port", "target_port"}

\* POST /api/connections bodies: complete ones, and one without target_port
CreateConnectionBodies ==
    {[source_agent_id |-> s, target_agent_id |-> t,
      source_port |-> "output", target_port |-> "input"] :
        s \in AgentIdArgs, t \in AgentIdArgs}
    \cup {[source_agent_id |-> 1, target_agent_id |-> 1, source_port |-> "output"]}

-----------------------------------------------------------------------------
(* create_agent, lines 32-55 *)

\* lines 42-53: the new agent
NewAgent(agent_id, data) ==
    [id     |-> agent_id,
     type   |-> data["type"],
     config |-> Merge(DefaultConfig(data["type"]), Get(data, "config", EmptyCfg))]

create_agent(data) ==
    /\ pc # "done"
    /\ IF ~({"name", "type"} \subseteq DOMAIN data)
       THEN /\ last' = [op |-> "create_agent", status |-> 400]
            /\ UNCHANGED <<agents_db, next_agent>>
       ELSE /\ next_agent < MaxIds
            /\ next_agent' = next_agent + 1
            /\ agents_db' = Append(agents_db, NewAgent(next_agent + 1, data))
            /\ last' = [op |-> "create_agent", status |-> 201]
    /\ UNCHANGED <<connections_db, next_conn, api_key, pc, run, snap, report>>

-----------------------------------------------------------------------------
(* update_agent, lines 61-83 *)

\* lines 70-80: the agent after the update.  The config is replaced, not merged.
UpdatedAgent(agent, data) ==
    [id     |-> agent.id,
     type   |-> Get(data, "type", agent.type),
     config |-> IF "config" \in DOMAIN data THEN data["config"] ELSE agent.config]

\* A local of the run in flight is a reference to the agent's dict: the
\* update, made in place (lines 70-80), is seen through it.
Alias(local, agent) == IF local.id = agent.id THEN agent ELSE local

update_agent(agent_id, data) ==
    /\ pc # "done"
    /\ IF agent_id \notin AgentIds(agents_db)
       THEN /\ last' = [op |-> "update_agent", status |-> 404]
            /\ UNCHANGED <<agents_db, run>>
       ELSE IF DOMAIN data = {}
       THEN /\ last' = [op |-> "update_agent", status |-> 400]
            /\ UNCHANGED <<agents_db, run>>
       ELSE LET agent == UpdatedAgent(AgentOf(agents_db, agent_id), data) IN
            /\ agents_db' = DictSet(agents_db, agent)
            /\ run' = [run EXCEPT
                   !.input_node_data = Alias(@, agent),
                   !.prompt_template_node_data = Alias(@, agent),
                   !.llm_node_data = Alias(@, agent)]
            /\ last' = [op |-> "update_agent", status |-> 200]
    /\ UNCHANGED <<connections_db, next_agent, next_conn, api_key, pc, snap, report>>

-----------------------------------------------------------------------------
(* delete_agent, lines 85-98 *)

\* delete_agent with a cascade that looks at the source end only
ConnectionsWithout_SourceOnly(conns, agent_id) ==
    SelectSeq(conns, LAMBDA conn : ~(conn.source_agent_id = agent_id))

\* delete_agent with a cascade that looks at the target end only
ConnectionsWithout_TargetOnly(conns, agent_id) ==
    SelectSeq(conns, LAMBDA conn : ~(conn.target_agent_id = agent_id))

\* lines 90-95: the connections left once those at agent_id are deleted
ConnectionsWithout(conns, agent_id) ==
    SelectSeq(conns, LAMBDA conn :
        ~(conn.source_agent_id = agent_id \/ conn.target_agent_id = agent_id))

delete_agent(agent_id) ==
    /\ pc # "done"
    /\ IF agent_id \notin AgentIds(agents_db)
       THEN /\ last' = [op |-> "delete_agent", status |-> 404]
            /\ UNCHANGED <<agents_db, connections_db>>
       ELSE /\ connections_db' = ConnectionsWithout(connections_db, agent_id)
            /\ agents_db' = DictDel(agents_db, agent_id)
            /\ last' = [op |-> "delete_agent", status |-> 200]
    /\ UNCHANGED <<next_agent, next_conn, api_key, pc, run, snap, report>>

-----------------------------------------------------------------------------
(* create_connection, lines 100-118 *)

\* the existence test on the source end only
EndpointsExist_SourceOnly(agents, data) ==
    data["source_agent_id"] \in AgentIds(agents)

\* line 106: both endpoints are agents of the store
EndpointsExist(agents, data) ==
    /\ data["source_agent_id"] \in AgentIds(agents)
    /\ data["target_agent_id"] \in AgentIds(agents)

\* lines 110-116
NewConnection(connection_id, data) ==
    [id              |-> connection_id,
     source_agent_id |-> data["source_agent_id"],
     target_agent_id |-> data["target_agent_id"],
     source_port     |-> data["source_port"],
     target_port     |-> data["target_port"]]

create_connection(data) ==
    /\ pc # "done"
    /\ IF ~(ConnectionFields \subseteq DOMAIN data)
       THEN /\ last' = [op |-> "create_connection", status |-> 400]
            /\ UNCHANGED <<connections_db, next_conn>>
       ELSE IF ~EndpointsExist(agents_db, data)
       THEN /\ last' = [op |-> "create_connection", status |-> 404]
            /\ UNCHANGED <<connections_db, next_conn>>
       ELSE /\ next_conn < MaxConns
            /\ next_conn' = next_conn + 1
            /\ connections_db' =
                   Append(connections_db, NewConnection(next_conn + 1, data))
            /\ last' = [op |-> "create_connection", status |-> 201]
    /\ UNCHANGED <<agents_db, next_agent, api_key, pc, run, snap, report>>

-----------------------------------------------------------------------------
(* delete_connection, lines 124-129 *)

delete_connection(connection_id) ==
    /\ pc # "done"
    /\ IF connection_id \notin ConnIds(connections_db)
       THEN /\ last' = [op |-> "delete_connection", status |-> 404]
            /\ UNCHANGED connections_db
       ELSE /\ connections_db' = DictDel(connections_db, connection_id)
            /\ last' = [op |-> "delete_connection", status |-> 200]
    /\ UNCHANGED <<agents_db, next_agent, next_conn, api_key, pc, run, snap, report>>

-----------------------------------------------------------------------------
(* run_flow, lines 132-245 *)

\* None, for a local that names no agent
NoAgent == [id |-> 0, type |-> "None", config |-> EmptyCfg]

NoReport ==
    [status |-> 0, keys |-> {}, error |-> "",
     execution_order |-> <<>>, final_outputs |-> <<>>]

NoRun ==
    [input_node_data |-> NoAgent, prompt_template_node_data |-> NoAgent,
     llm_node_data |-> NoAgent,
     chain_input |-> EmptyDict, template_string |-> "",
     prompt |-> "", invoked |-> 0,
     llm_result |-> [kind |-> "none", text |-> ""]]

NoSnap == [agents |-> <<>>, conns |-> <<>>]

Max(S) == CHOOSE m \in S : \A n \in S : n <= m

\* line 162
is_target(conns, agent_id) ==
    \E i \in DOMAIN conns : conns[i].target_agent_id = agent_id

\* The loop of lines 158-170 assigns the local at every agent that passes the
\* test and never breaks: of the positions that pass, the last one is kept.
LastAt(agents, hits) ==
    IF hits = {} THEN NoAgent ELSE agents[Max(hits)]

\* lines 159-164
ScanInput(agents, conns) ==
    LastAt(agents, {i \in DOMAIN agents :
        agents[i].type = "InputNode" /\ ~is_target(conns, agents[i].id)})

\* lines 167-168
ScanPrompt(agents) ==
    LastAt(agents, {i \in DOMAIN agents : agents[i].type = "PromptTemplateNode"})

\* lines 169-170
ScanLLM(agents) ==
    LastAt(agents, {i \in DOMAIN agents : agents[i].type = "GeminiLLMNode"})

\* lines 176-195: an error response that carries no order and no outputs
ErrorReport(status, keys, error) ==
    [status |-> status, keys |-> keys, error |-> error,
     execution_order |-> <<>>, final_outputs |-> <<>>]

AllKeys == {"error", "simulation_details", "execution_order", "final_outputs"}

\* lines 135-140
KeyMissingReport ==
    ErrorReport(500, AllKeys,
                "GOOGLE_API_KEY environment variable not set on the server.")

\* the validation without its last test (lines 179-180)
Preflight_NoLLMCheck(input, prompt_template, llm) ==
    IF input = NoAgent
    THEN ErrorReport(400, {"error", "simulation_details"},
             "InputNode not found or not configured as a starting node in the flow.")
    ELSE IF prompt_template = NoAgent
    THEN ErrorReport(400, {"error", "simulation_details"},
             "PromptTemplateNode not found in the flow.")
    ELSE NoReport

\* lines 175-180: the first missing component's response, NoReport when the
\* three are there
Preflight(input, prompt_template, llm) ==
    IF input = NoAgent
    THEN ErrorReport(400, {"error", "simulation_details"},
             "InputNode not found or not configured as a starting node in the flow.")
    ELSE IF prompt_template = NoAgent
    THEN ErrorReport(400, {"error", "simulation_details"},
             "PromptTemplateNode not found in the flow.")
    ELSE IF llm = NoAgent
    THEN ErrorReport(400, {"error", "simulation_details"},
             "GeminiLLMNode not found in the flow.")
    ELSE NoReport

\* an except clause that reports a fixed text and drops the exception's
ExceptionReport_Generic(e) ==
    ErrorReport(500, AllKeys, "Langchain execution failed")

\* lines 238-245
ExceptionReport(e) ==
    ErrorReport(500, AllKeys, "Langchain execution failed: " \o e)

\* lines 226-236
SuccessReport(input, prompt_template, llm, response) ==
    [status |-> 200,
     keys |-> {"message", "execution_order", "simulation_details", "final_outputs"},
     error |-> "",
     execution_order |-> <<input.id, prompt_template.id, llm.id>>,
     final_outputs |-> (llm.id :> response)]

\* a format that leaves the placeholders in place
Render_NoSubstitution(template, input) == [ok |-> TRUE, text |-> template]

\* The first position of character c in s at or after i, 0 when there is none
RECURSIVE Find(_, _, _)
Find(s, c, i) ==
    IF i > Len(s) THEN 0
    ELSE IF SubSeq(s, i, i) = c THEN i
    ELSE Find(s, c, i + 1)

\* line 197 and the prompt stage of chain.invoke, line 223: the template with
\* each {name} replaced by the input's value for name; the format fails when
\* the input holds no such name.
RECURSIVE Render(_, _)
Render(template, input) ==
    LET open  == Find(template, "{", 1)
        close == Find(template, "}", open + 1)
        name  == SubSeq(template, open + 1, close - 1)
        rest  == Render(SubSeq(template, close + 1, Len(template)), input)
    IN  IF open = 0 THEN [ok |-> TRUE, text |-> template]
        ELSE IF close = 0
        THEN [ok |-> FALSE, text |-> "Invalid prompt schema"]
        ELSE IF ~(input.kind = "dict" /\ name = "text")
        THEN [ok |-> FALSE,
              text |-> "Input to PromptTemplate is missing variables " \o name]
        ELSE IF ~rest.ok THEN rest
        ELSE [ok |-> TRUE,
              text |-> SubSeq(template, 1, open - 1) \o input.text \o rest.text]

\* the setup without the test of lines 194-195
Setup_NoTemplateCheck(input, prompt_template, llm) ==
    LET chain_input     == Get(input.config, "value", EmptyDict)
        template_string == Get(prompt_template.config, "template_string", "")
        rendered        == Render(template_string, chain_input)
    IN  IF ~IsDict(chain_input)
        THEN [invoke |-> FALSE, prompt |-> "",
              chain_input |-> chain_input, template_string |-> template_string,
              report |-> ErrorReport(400, {"error", "simulation_details"},
                  "InputNode 'value' config must be a dictionary (object).")]
        ELSE IF ~rendered.ok
        THEN [invoke |-> FALSE, prompt |-> "",
              chain_input |-> chain_input, template_string |-> template_string,
              report |-> ExceptionReport(rendered.text)]
        ELSE [invoke |-> TRUE, prompt |-> rendered.text,
              chain_input |-> chain_input, template_string |-> template_string,
              report |-> NoReport]

\* lines 186-223, up to the model's invocation: the response returned before
\* the model is called, or the prompt the model is called with
Setup(input, prompt_template, llm) ==
    LET chain_input     == Get(input.config, "value", EmptyDict)
        template_string == Get(prompt_template.config, "template_string", "")
        rendered        == Render(template_string, chain_input)
    IN  IF ~IsDict(chain_input)
        THEN [invoke |-> FALSE, prompt |-> "",
              chain_input |-> chain_input, template_string |-> template_string,
              report |-> ErrorReport(400, {"error", "simulation_details"},
                  "InputNode 'value' config must be a dictionary (object).")]
        ELSE IF template_string = ""
        THEN [invoke |-> FALSE, prompt |-> "",
              chain_input |-> chain_input, template_string |-> template_string,
              report |-> ErrorReport(400, {"error"},
                  "PromptTemplateNode has no template_string configured.")]
        ELSE IF ~rendered.ok
        THEN [invoke |-> FALSE, prompt |-> "",
              chain_input |-> chain_input, template_string |-> template_string,
              report |-> ExceptionReport(rendered.text)]
        ELSE [invoke |-> TRUE, prompt |-> rendered.text,
              chain_input |-> chain_input, template_string |-> template_string,
              report |-> NoReport]

\* What the model collaborator may answer: the prompt itself (an echoing
\* stub) or a fixed text; or it fails with one of two messages.
Responses(prompt) == {prompt, "Bonjour"}
FailureMessages == {"429 quota exceeded", "503 unavailable"}

\* run_flow with the credential tested after the scan and the validation
run_begin_ScanFirst ==
    /\ pc = "idle"
    /\ snap' = [agents |-> agents_db, conns |-> connections_db]
    /\ LET input == ScanInput(agents_db, connections_db)
           prompt_template == ScanPrompt(agents_db)
           llm == ScanLLM(agents_db)
           early == Preflight(input, prompt_template, llm)
       IN  /\ run' = [NoRun EXCEPT
                  !.input_node_data = input,
                  !.prompt_template_node_data = prompt_template,
                  !.llm_node_data = llm]
           /\ IF early # NoReport
              THEN pc' = "done" /\ report' = early
              ELSE IF ~api_key
              THEN pc' = "done" /\ report' = KeyMissingReport
              ELSE pc' = "scanned" /\ report' = NoReport
    /\ UNCHANGED <<agents_db, connections_db, next_agent, next_conn, api_key, last>>

\* lines 134-180: the credential check, the scan of the store, the validation
run_begin ==
    /\ pc = "idle"
    /\ snap' = [agents |-> agents_db, conns |-> connections_db]
    /\ IF ~api_key
       THEN /\ pc' = "done"
            /\ report' = KeyMissingReport
            /\ run' = NoRun
       ELSE LET input == ScanInput(agents_db, connections_db)
                prompt_template == ScanPrompt(agents_db)
                llm == ScanLLM(agents_db)
                early == Preflight(input, prompt_template, llm)
            IN  /\ run' = [NoRun EXCEPT
                       !.input_node_data = input,
                       !.prompt_template_node_data = prompt_template,
                       !.llm_node_data = llm]
                /\ IF early # NoReport
                   THEN pc' = "done" /\ report' = early
                   ELSE pc' = "scanned" /\ report' = NoReport
    /\ UNCHANGED <<agents_db, connections_db, next_agent, next_conn, api_key, last>>

\* lines 182-223: read the configuration, build the chain, call the model
run_setup ==
    /\ pc = "scanned"
    /\ LET s == Setup(run.input_node_data, run.prompt_template_node_data,
                      run.llm_node_data)
       IN  IF s.invoke
           THEN /\ pc' = "invoking"
                /\ run' = [run EXCEPT
                       !.chain_input = s.chain_input,
                       !.template_string = s.template_string,
                       !.prompt = s.prompt,
                       !.invoked = @ + 1]
                /\ report' = NoReport
           ELSE /\ pc' = "done"
                /\ report' = s.report
                /\ run' = run
    /\ UNCHANGED <<agents_db, connections_db, next_agent, next_conn, api_key,
                   last, snap>>

\* a run that keeps the model's answer in the model node's config
llm_return_WritesBack(response) ==
    /\ pc = "invoking"
    /\ pc' = "done"
    /\ run' = [run EXCEPT !.llm_result = [kind |-> "ok", text |-> response]]
    /\ report' = SuccessReport(run.input_node_data, run.prompt_template_node_data,
                               run.llm_node_data, response)
    /\ agents_db' = DictSet(agents_db,
           [run.llm_node_data EXCEPT !.config = Merge(@, [output |-> response])])
    /\ UNCHANGED <<connections_db, next_agent, next_conn, api_key, last, snap>>

\* lines 223-236: the model answers
llm_return(response) ==
    /\ pc = "invoking"
    /\ pc' = "done"
    /\ run' = [run EXCEPT !.llm_result = [kind |-> "ok", text |-> response]]
    /\ report' = SuccessReport(run.input_node_data, run.prompt_template_node_data,
                               run.llm_node_data, response)
    /\ UNCHANGED <<agents_db, connections_db, next_agent, next_conn, api_key,
                   last, snap>>

\* a run that calls the model again after a failed call
llm_fail_Retry(m) ==
    /\ pc = "invoking"
    /\ IF run.invoked < 2
       THEN /\ pc' = "invoking"
            /\ run' = [run EXCEPT !.invoked = @ + 1]
            /\ report' = report
       ELSE /\ pc' = "done"
            /\ run' = [run EXCEPT !.llm_result = [kind |-> "fail", text |-> m]]
            /\ report' = ExceptionReport(m)
    /\ UNCHANGED <<agents_db, connections_db, next_agent, next_conn, api_key,
                   last, snap>>

\* lines 223, 238-245: the model call raises
llm_fail(m) ==
    /\ pc = "invoking"
    /\ pc' = "done"
    /\ run' = [run EXCEPT !.llm_result = [kind |-> "fail", text |-> m]]
    /\ report' = ExceptionReport(m)
    /\ UNCHANGED <<agents_db, connections_db, next_agent, next_conn, api_key,
                   last, snap>>

\* the response has been sent: the run's locals are gone
run_end ==
    /\ pc = "done"
    /\ pc' = "idle"
    /\ run' = NoRun
    /\ snap' = NoSnap
    /\ report' = NoReport
    /\ UNCHANGED <<agents_db, connections_db, next_agent, next_conn, api_key, last>>

-----------------------------------------------------------------------------
(* The system *)

AppInit ==
    /\ agents_db = <<>>
    /\ connections_db = <<>>
    /\ next_agent = 0
    /\ next_conn = 0
    /\ api_key \in BOOLEAN
    /\ last = [op |-> "none", status |-> 0]
    /\ pc = "idle"
    /\ run = NoRun
    /\ snap = NoSnap
    /\ report = NoReport

\* no bot process takes part in the backend's behaviour
Init ==
    /\ AppInit
    /\ bots = <<>>

CreateAgent ==
    /\ \E data \in CreateAgentBodies : create_agent(data)
    /\ UNCHANGED bots
UpdateAgent ==
    /\ \E a \in AgentIdArgs, data \in UpdateAgentBodies : update_agent(a, data)
    /\ UNCHANGED bots
DeleteAgent ==
    /\ \E a \in AgentIdArgs : delete_agent(a)
    /\ UNCHANGED bots
CreateConnection ==
    /\ \E data \in CreateConnectionBodies : create_connection(data)
    /\ UNCHANGED bots
DeleteConnection ==
    /\ \E c \in ConnIdArgs : delete_connection(c)
    /\ UNCHANGED bots
RunBegin == run_begin /\ UNCHANGED bots
RunSetup == run_setup /\ UNCHANGED bots
LLMReturn ==
    /\ \E response \in Responses(run.prompt) : llm_return(response)
    /\ UNCHANGED bots
LLMFail ==
    /\ \E m \in FailureMessages : llm_fail(m)
    /\ UNCHANGED bots
RunEnd == run_end /\ UNCHANGED bots

Next ==
    \/ CreateAgent
    \/ UpdateAgent
    \/ DeleteAgent
    \/ CreateConnection
    \/ DeleteConnection
    \/ RunBegin
    \/ RunSetup
    \/ LLMReturn
    \/ LLMFail
    \/ RunEnd

Spec == Init /\ [][Next]_vars

-----------------------------------------------------------------------------
(* The store's handlers alone, no run in progress *)

StoreNext ==
    \/ CreateAgent
    \/ UpdateAgent
    \/ DeleteAgent
    \/ CreateConnection
    \/ DeleteConnection

StoreSpec == Init /\ [][StoreNext]_vars

-----------------------------------------------------------------------------
(* run_flow on a store that no request changes *)

\* The bodies the agents of such a store were created with: those of
\* CreateAgentBodies that create_agent accepts, an InputNode whose value is
\* {"text": "hi"} and a PromptTemplateNode whose template is "Say: {text}".
StoreBodies ==
    {data \in CreateAgentBodies : {"name", "type"} \subseteq DOMAIN data}
    \cup {[name |-> "n", type |-> "InputNode",
           config |-> [value |-> Val("dict", "hi")]],
          [name |-> "n", type |-> "PromptTemplateNode",
           config |-> [template_string |-> "Say: {text}"]]}

\* agents_db after k accepted create_agent requests, lines 38-54
RECURSIVE StoresOf(_)
StoresOf(k) ==
    IF k = 0 THEN {<<>>}
    ELSE {Append(agents, NewAgent(k, data)) :
              agents \in StoresOf(k - 1), data \in StoreBodies}

RunInit ==
    /\ agents_db \in UNION {StoresOf(k) : k \in 0..MaxIds}
    /\ connections_db = <<>>
    /\ next_agent = Len(agents_db)
    /\ next_conn = 0
    /\ api_key \in BOOLEAN
    /\ last = [op |-> "none", status |-> 0]
    /\ pc = "idle"
    /\ run = NoRun
    /\ snap = NoSnap
    /\ report = NoReport
    /\ bots = <<>>

RunNext ==
    \/ RunBegin
    \/ RunSetup
    \/ LLMReturn
    \/ LLMFail
    \/ RunEnd

RunSpec == RunInit /\ [][RunNext]_vars

-----------------------------------------------------------------------------
(* The bot processes, src/dice_bot.py *)

Bots == 1..MaxBots

\* Who may call cleanup(): the shutdown task of a signal (lines 209-213), the
\* getUpdates-conflict branch of error_handler (lines 160-164), the critical
\* error path of run (lines 237-240), the atexit hook (line 203).
CleanupCallers == {"signal", "conflict", "critical", "atexit"}

\* DEPLOYMENT_MODE, line 46
DeploymentModes == {"polling", "webhook"}

\* A process that has built its DiceBot (lines 77-83) and not called run().
\* socket: none, bound, unbound (created, bind refused), closed.
\* co[c]: where caller c's cleanup() is: none (not called), noop (returned at
\* line 174), delete_webhook, stop, shutdown (awaiting that call), returned
\* (ran to line 182), failed (left through the except clause, line 184).
\* stops, shutdowns, releases count the calls of application.stop,
\* application.shutdown and process_lock.release.
NewBot(mode) ==
    [pc |-> "new", mode |-> mode, acquired |-> FALSE, socket |-> "none",
     is_running |-> FALSE, serving |-> FALSE,
     co |-> [c \in CleanupCallers |-> "none"],
     stops |-> 0, shutdowns |-> 0, releases |-> 0]

\* line 61: bind succeeds when no other process has a socket bound to the port
BindSucceeds(bs, b) == \A o \in DOMAIN bs : o # b => bs[o].socket # "bound"

\* an acquire that returns True whether or not bind raised
Acquire_IgnoresBindError(bs, b) == TRUE

\* lines 57-64: acquire() returns True when bind did not raise
Acquire(bs, b) == BindSucceeds(bs, b)

\* lines 66-72: release() closes the socket
Released(bot) == [bot EXCEPT !.socket = "closed", !.releases = @ + 1]

\* lines 195-236: run() up to the start of polling or webhook serving, or its
\* exit at line 200; a process that exits has its socket closed
bot_run(b) ==
    /\ bots[b].pc = "new"
    /\ IF Acquire(bots, b)
       THEN bots' = [bots EXCEPT ![b] = [@ EXCEPT
                !.pc = "running",
                !.acquired = TRUE,
                !.socket = IF BindSucceeds(bots, b) THEN "bound" ELSE "unbound",
                !.is_running = TRUE,
                !.serving = TRUE]]
       ELSE bots' = [bots EXCEPT ![b] = [@ EXCEPT
                !.pc = "exited", !.socket = "closed"]]

\* the loop on which caller c's cleanup() runs is alive
CanRun(bot, c) ==
    \/ c \in {"signal", "conflict"} /\ bot.pc = "running"
    \/ c = "critical" /\ bot.pc = "critical"
    \/ c = "atexit" /\ bot.pc = "exiting"

\* What follows the return of caller c's cleanup(), with no await between:
\* sys.exit in the shutdown task (line 213) and on the critical path (line
\* 240), after which the atexit hook is due; the end of the process, and of
\* its socket, after the atexit hook; nothing after error_handler's (line 164).
AfterCleanup(bot, c) ==
    CASE c \in {"signal", "critical"} -> [bot EXCEPT !.pc = "exiting"]
      [] c = "atexit" ->
             [bot EXCEPT !.pc = "exited", !.socket = "closed", !.serving = FALSE]
      [] OTHER -> bot

\* lines 173-179: cleanup() from its call to its first await, or to its
\* return at line 174
cleanup_enter(b, c) ==
    LET bot == bots[b] IN
    /\ CanRun(bot, c)
    /\ bot.co[c] = "none"
    /\ bots' = [bots EXCEPT ![b] =
           IF ~bot.is_running
           THEN AfterCleanup([bot EXCEPT !.co[c] = "noop"], c)
           ELSE IF bot.mode = "webhook"
           THEN [bot EXCEPT !.co[c] = "delete_webhook"]
           ELSE [bot EXCEPT !.co[c] = "stop", !.stops = @ + 1]]

\* lines 178-182: the awaited call returns and cleanup() goes on to its next
\* await, or to the release, the flag and its return
cleanup_step(b, c) ==
    LET bot == bots[b] IN
    /\ CanRun(bot, c)
    /\ bot.co[c] \in {"delete_webhook", "stop", "shutdown"}
    /\ bots' = [bots EXCEPT ![b] =
           CASE bot.co[c] = "delete_webhook" ->
                    [bot EXCEPT !.co[c] = "stop", !.stops = @ + 1]
             [] bot.co[c] = "stop" ->
                    [bot EXCEPT !.co[c] = "shutdown", !.serving = FALSE,
                                !.shutdowns = @ + 1]
             [] bot.co[c] = "shutdown" ->
                    AfterCleanup([Released(bot) EXCEPT !.co[c] = "returned",
                                                       !.is_running = FALSE], c)]

\* lines 183-184: the awaited call raises, and cleanup() returns
cleanup_raise(b, c) ==
    LET bot == bots[b] IN
    /\ CanRun(bot, c)
    /\ bot.co[c] \in {"delete_webhook", "stop", "shutdown"}
    /\ bots' = [bots EXCEPT ![b] = AfterCleanup([bot EXCEPT !.co[c] = "failed"], c)]

\* lines 236-238: run_polling or run_webhook raises an exception
bot_critical(b) ==
    /\ bots[b].pc = "running"
    /\ bots' = [bots EXCEPT ![b] = [@ EXCEPT !.pc = "critical", !.serving = FALSE]]

app_vars == <<agents_db, connections_db, next_agent, next_conn, api_key, last,
              pc, run, snap, report>>

BotInit ==
    /\ AppInit
    /\ api_key = FALSE
    /\ bots \in [Bots -> {NewBot(mode) : mode \in DeploymentModes}]

BotRun == \E b \in Bots : bot_run(b) /\ UNCHANGED app_vars
CleanupEnter ==
    \E b \in Bots, c \in CleanupCallers : cleanup_enter(b, c) /\ UNCHANGED app_vars
CleanupStep ==
    \E b \in Bots, c \in CleanupCallers : cleanup_step(b, c) /\ UNCHANGED app_vars
CleanupRaise ==
    \E b \in Bots, c \in CleanupCallers : cleanup_raise(b, c) /\ UNCHANGED app_vars
BotCritical == \E b \in Bots : bot_critical(b) /\ UNCHANGED app_vars

BotNext ==
    \/ BotRun
    \/ CleanupEnter
    \/ CleanupStep
    \/ CleanupRaise
    \/ BotCritical

BotSpec == BotInit /\ [][BotNext]_vars

-----------------------------------------------------------------------------
(* Vocabulary of the properties *)

HasType(agents, t) == \E i \in DOMAIN agents : agents[i].type = t

CountType(agents, t) == Cardinality({i \in DOMAIN agents : agents[i].type = t})

\* s occurs in text, unchanged
Contains(text, s) ==
    \E i \in 1..(Len(text) - Len(s) + 1) : SubSeq(text, i, i + Len(s) - 1) = s

IndexOf(seq, x) == CHOOSE i \in DOMAIN seq : seq[i] = x

Edges(conns) ==
    {<<conns[i].source_agent_id, conns[i].target_agent_id>> : i \in DOMAIN conns}

Succ(E, S) == {e[2] : e \in {d \in E : d[1] \in S}}

RECURSIVE Closure(_, _)
Closure(E, S) ==
    LET T == S \cup Succ(E, S) IN IF T = S THEN S ELSE Closure(E, T)

\* no agent reaches itself along the connections
Acyclic(agents, conns) ==
    \A n \in AgentIds(agents) : n \notin Closure(Edges(conns), Succ(Edges(conns), {n}))

Failed == pc = "done" /\ report.status # 200

\* The report of a run that works on the store as it was at the run's start,
\* given the model collaborator's answer.
SnapshotSetup ==
    Setup(ScanInput(snap.agents, snap.conns), ScanPrompt(snap.agents),
          ScanLLM(snap.agents))

SnapshotReport ==
    LET input == ScanInput(snap.agents, snap.conns)
        prompt_template == ScanPrompt(snap.agents)
        llm == ScanLLM(snap.agents)
        early == Preflight(input, prompt_template, llm)
    IN  IF ~api_key THEN KeyMissingReport
        ELSE IF early # NoReport THEN early
        ELSE IF ~SnapshotSetup.invoke THEN SnapshotSetup.report
        ELSE IF run.llm_result.kind = "ok"
        THEN SuccessReport(input, prompt_template, llm, run.llm_result.text)
        ELSE ExceptionReport(run.llm_result.text)

-----------------------------------------------------------------------------
(* C1 *)

\* C1: after any sequence of create_agent, update_agent, delete_agent,
\* create_connection and delete_connection requests, every connection of
\* connections_db has its source and its target among the keys of agents_db,
\* and so has every connection of the store a run starts on.
C1_NoDanglingEdge ==
    /\ \A i \in DOMAIN connections_db :
           /\ connections_db[i].source_agent_id \in AgentIds(agents_db)
           /\ connections_db[i].target_agent_id \in AgentIds(agents_db)
    /\ \A i \in DOMAIN snap.conns :
           /\ snap.conns[i].source_agent_id \in AgentIds(snap.agents)
           /\ snap.conns[i].target_agent_id \in AgentIds(snap.agents)

\* delete_agent has just deleted an agent, a connection was created before,
\* and none is left
C1_Witness ==
    /\ last = [op |-> "delete_agent", status |-> 200]
    /\ next_conn > 0
    /\ connections_db = <<>>
    /\ agents_db # <<>>

(* C2 *)

\* C2: a run started on a store with no PromptTemplateNode or no GeminiLLMNode
\* ends at once with an error response, and the model collaborator is not
\* invoked during it.
C2_MissingRoleFailsWithoutCall ==
    (/\ pc # "idle"
     /\ \/ ~HasType(snap.agents, "PromptTemplateNode")
        \/ ~HasType(snap.agents, "GeminiLLMNode"))
    => /\ pc = "done"
       /\ report.error # ""
       /\ report.status >= 400
       /\ run.invoked = 0

\* the credential and the entry node are there, the model-call node is not
C2_Witness ==
    /\ pc = "done"
    /\ api_key
    /\ run.input_node_data # NoAgent
    /\ HasType(snap.agents, "PromptTemplateNode")
    /\ ~HasType(snap.agents, "GeminiLLMNode")
    /\ report.error = "GeminiLLMNode not found in the flow."

(* C3 *)

\* C3: the model is invoked only in a run started on a store that holds
\* exactly one node of each of the four types InputNode, PromptTemplateNode,
\* GeminiLLMNode and OutputNode.
C3_InvokedOnlyWithFourUniqueRoles ==
    run.invoked > 0 =>
        \A t \in {"InputNode", "PromptTemplateNode", "GeminiLLMNode", "OutputNode"} :
            CountType(snap.agents, t) = 1

(* C4 *)

\* C4: every failed run's report holds an error string together with the
\* execution_order and final_outputs fields.
C4_FailedReportHasAllFields ==
    Failed =>
        /\ report.error # ""
        /\ {"error", "execution_order", "final_outputs"} \subseteq report.keys

(* C5 *)

\* C5: in every report, each node id of execution_order has an entry in
\* final_outputs.
C5_ScheduledNodesHaveOutputs ==
    pc = "done" =>
        \A i \in DOMAIN report.execution_order :
            report.execution_order[i] \in DOMAIN report.final_outputs

(* C6 *)

\* C6: when a run succeeds on an acyclic store with a single InputNode, the
\* execution_order starts with that node and lists, for every connection
\* (u, v) with both ends in it, u before v.
C6_OrderRespectsConnections ==
    (/\ pc = "done"
     /\ report.status = 200
     /\ Acyclic(snap.agents, snap.conns)
     /\ CountType(snap.agents, "InputNode") = 1)
    => LET order == report.execution_order IN
       /\ order # <<>>
       /\ \E i \in DOMAIN snap.agents :
              snap.agents[i].type = "InputNode" /\ snap.agents[i].id = order[1]
       /\ \A e \in Edges(snap.conns) :
              (e[1] \in Range(order) /\ e[2] \in Range(order))
                  => IndexOf(order, e[1]) < IndexOf(order, e[2])

(* C7 *)

\* C7: a run's report is the one a run on the store as it was at the run's
\* start gives, whatever requests are served while the run is in flight; the
\* model is called with the prompt that store gives.
C7_RunUsesStartSnapshot ==
    pc = "done" =>
        /\ report = SnapshotReport
        /\ run.invoked > 0 => (SnapshotSetup.invoke /\ run.prompt = SnapshotSetup.prompt)

(* C8 *)

\* C8: a run started with the credential set on a store that holds an
\* InputNode has an InputNode as its entry node, whether or not a connection
\* targets it.
C8_TargetedInputNodeStartsFlow ==
    (pc # "idle" /\ api_key /\ HasType(snap.agents, "InputNode"))
        => run.input_node_data.type = "InputNode"

(* C9 *)

\* C9: when the model call fails with message m, the run's report is a failure
\* whose error string contains m unchanged, it is no success report, and
\* final_outputs holds no output for the model node.
C9_ModelFailureReported ==
    (pc = "done" /\ run.llm_result.kind = "fail")
    => /\ report.status # 200
       /\ "message" \notin report.keys
       /\ "error" \in report.keys
       /\ Contains(report.error, run.llm_result.text)
       /\ run.llm_node_data.id \notin DOMAIN report.final_outputs

\* the model was invoked and failed with the quota message
C9_Witness ==
    /\ pc = "done"
    /\ run.invoked = 1
    /\ run.llm_result = [kind |-> "fail", text |-> "429 quota exceeded"]
    /\ report.status = 500

(* C10 *)

\* what the run is about to read is malformed: no or an empty template_string
\* in the template node, or a value in the entry node that is no dictionary
BadConfig ==
    \/ Get(run.prompt_template_node_data.config, "template_string", "") = ""
    \/ ~IsDict(Get(run.input_node_data.config, "value", EmptyDict))

\* C10: when the run reads its configuration and the template node's
\* template_string is absent or empty, or the entry node's value is not a
\* dictionary, that step ends the run with an error response and the model
\* collaborator is not invoked.
C10_BadConfigAborts ==
    [][(pc = "scanned" /\ pc' # "scanned" /\ BadConfig)
        => /\ pc' = "done"
           /\ report'.error # ""
           /\ report'.status >= 400
           /\ "error" \in report'.keys
           /\ run'.invoked = 0]_vars

\* a run that passed the validation has ended on the empty template
C10_Witness ==
    /\ pc = "done"
    /\ run.input_node_data # NoAgent
    /\ run.prompt_template_node_data # NoAgent
    /\ run.llm_node_data # NoAgent
    /\ IsDict(Get(run.input_node_data.config, "value", EmptyDict))
    /\ Get(run.prompt_template_node_data.config, "template_string", "") = ""
    /\ report.error = "PromptTemplateNode has no template_string configured."

(* C11 *)

\* C11: on a successful run over a store that no request changes,
\* final_outputs maps the model node's id, and no other, to the text the model
\* collaborator returned, and the collaborator was called once, with the
\* template_string of a PromptTemplateNode of the store in which {text} is
\* replaced by the text of the value of an InputNode of the store; when the
\* collaborator echoes its prompt, value {text: hi} and template 'Say: {text}'
\* give final_outputs 'Say: hi'.
C11_ModelOutputRecorded ==
    (pc = "done" /\ report.status = 200)
    => /\ run.llm_result.kind = "ok"
       /\ run.invoked = 1
       /\ \E i \in DOMAIN agents_db :
              /\ agents_db[i].type = "GeminiLLMNode"
              /\ DOMAIN report.final_outputs = {agents_db[i].id}
              /\ report.final_outputs[agents_db[i].id] = run.llm_result.text
       /\ \E i \in DOMAIN agents_db :
              /\ agents_db[i].type = "PromptTemplateNode"
              /\ agents_db[i].config["template_string"] = run.template_string
       /\ \E i \in DOMAIN agents_db :
              /\ agents_db[i].type = "InputNode"
              /\ agents_db[i].config["value"] = run.chain_input
       /\ (run.template_string = "Say: {text}" /\ run.chain_input.text = "hi")
              => /\ run.prompt = "Say: hi"
                 /\ run.llm_result.text = run.prompt
                        => report.final_outputs[run.llm_node_data.id] = "Say: hi"
       /\ (run.template_string = DEFAULT_CONFIGS.PromptTemplateNode.template_string)
              => run.prompt = "Translate the following text to French: "
                                  \o run.chain_input.text

\* the echoing collaborator, value {text: hi} and template 'Say: {text}'
C11_Witness ==
    /\ pc = "done"
    /\ report.status = 200
    /\ run.template_string = "Say: {text}"
    /\ run.chain_input = Val("dict", "hi")
    /\ run.llm_result.text = run.prompt
    /\ report.final_outputs[run.llm_node_data.id] = "Say: hi"

(* C12 *)

\* C12: a run, with the credential set, over a store with no node and no
\* connection returns an empty execution_order, empty final_outputs and no
\* error.
C12_EmptyStoreCompletes ==
    (pc = "done" /\ api_key /\ snap.agents = <<>> /\ snap.conns = <<>>)
    => /\ report.status = 200
       /\ report.error = ""
       /\ "error" \notin report.keys
       /\ report.execution_order = <<>>
       /\ report.final_outputs = <<>>

(* C13 *)

\* C13: within one run the model collaborator is invoked at most once; once
\* an invocation has failed the run has ended, failed, with that one
\* invocation.
C13_NoRetry ==
    /\ run.invoked <= 1
    /\ run.llm_result.kind = "fail"
           => (pc = "done" /\ report.status # 200 /\ run.invoked = 1)
    /\ pc = "invoking" => run.invoked = 1

\* the one invocation failed and the run ended
C13_Witness ==
    /\ pc = "done"
    /\ run.invoked = 1
    /\ run.llm_result = [kind |-> "fail", text |-> "503 unavailable"]
    /\ report.error = "Langchain execution failed: 503 unavailable"

(* C14 *)

\* C14: a run started without the credential ends at once: it has looked at
\* no node, the model collaborator is not invoked, and its report is the
\* credential error with an empty execution_order and empty final_outputs.
C14_CredentialCheckedFirst ==
    (pc # "idle" /\ ~api_key)
    => /\ pc = "done"
       /\ run.input_node_data = NoAgent
       /\ run.prompt_template_node_data = NoAgent
       /\ run.llm_node_data = NoAgent
       /\ run.invoked = 0
       /\ report.status = 500
       /\ report.error = "GOOGLE_API_KEY environment variable not set on the server."
       /\ {"error", "execution_order", "final_outputs"} \subseteq report.keys
       /\ report.execution_order = <<>>
       /\ report.final_outputs = <<>>

\* no credential, and a store on which a run with the credential would call
\* the model
C14_Witness ==
    /\ pc = "done"
    /\ ~api_key
    /\ HasType(snap.agents, "InputNode")
    /\ HasType(snap.agents, "PromptTemplateNode")
    /\ HasType(snap.agents, "GeminiLLMNode")
    /\ report.status = 500

(* C15 *)

C16_RunLeavesStoreUnchanged ==
    [][pc' # pc => UNCHANGED <<agents_db, connections_db, next_agent, next_conn>>]_vars

\* a run has succeeded on a store with a connection, and the store is as it
\* was when the run started
C16_Witness ==
    /\ pc = "done"
    /\ report.status = 200
    /\ snap.conns # <<>>
    /\ agents_db = snap.agents
    /\ connections_db = snap.conns

(* C17 *)

\* C17: delete_agent(a) on an agent of the store removes that agent and the
\* connections whose source or target is a, and leaves every other agent and
\* connection as it was, in place; on an unknown id it answers 404 and changes
\* neither store.
C17_DeleteAgentFrame ==
    [][\A a \in AgentIdArgs :
        delete_agent(a) =>
            IF \E i \in DOMAIN agents_db : agents_db[i].id = a
            THEN /\ agents_db' = SelectSeq(agents_db, LAMBDA x : x.id # a)
                 /\ connections_db' = SelectSeq(connections_db, LAMBDA c :
                        c.source_agent_id # a /\ c.target_agent_id # a)
                 /\ last' = [op |-> "delete_agent", status |-> 200]
            ELSE /\ UNCHANGED <<agents_db, connections_db>>
                 /\ last' = [op |-> "delete_agent", status |-> 404]]_vars

\* an agent has just been deleted and a connection between two others is
\* still there
C17_Witness ==
    /\ last = [op |-> "delete_agent", status |-> 200]
    /\ connections_db # <<>>
    /\ Len(agents_db) < next_agent

(* C18 *)

\* the process has acquired the lock and not released it
Holds(bot) == bot.acquired /\ bot.socket # "closed"

\* C18: at most one bot process holds the process lock at any time; a process
\* polls or serves its webhook only while it holds the lock; and a process
\* whose acquire() returned False has exited without starting either.
C18_SingleLockHolder ==
    /\ Cardinality({b \in Bots : Holds(bots[b])}) <= 1
    /\ \A b \in Bots : bots[b].serving => Holds(bots[b])
    /\ \A b \in Bots :
           (bots[b].pc # "new" /\ ~bots[b].acquired)
               => (bots[b].pc = "exited" /\ ~bots[b].serving /\ ~bots[b].is_running)

\* one process holds the lock and polls, another was refused and has exited
C18_Witness ==
    \E b \in Bots, o \in Bots :
        /\ Holds(bots[b]) /\ bots[b].serving
        /\ bots[o].pc = "exited" /\ ~bots[o].acquired

(* C19 *)

\* C19: in one bot run, whatever the interleaving of the callers of cleanup(),
\* application.stop, application.shutdown and the lock's release are each
\* called at most once, and a cleanup() that finds is_running false calls none.
C19_ShutdownSequenceOnce ==
    \A b \in Bots :
        /\ bots[b].stops <= 1
        /\ bots[b].shutdowns <= 1
        /\ bots[b].releases <= 1

(* C20 *)

\* C20: once a cleanup() that was called with is_running true has returned,
\* by its last line or through its except clause, is_running is false and the
\* lock's socket is closed.
C20_CleanupAlwaysReleases ==
    \A b \in Bots : \A c \in CleanupCallers :
        bots[b].co[c] \in {"returned", "failed"}
            => (~bots[b].is_running /\ bots[b].socket = "closed")

====
